---- MODULE Spec2Model ----
(***************************************************************************)
(* ChapterMate (src/chapter_mate.py): a reading-progress tracker.  The     *)
(* model has three specifications over one set of variables:               *)
(*   Spec        the application: the persisted state document, the        *)
(*               in-memory library state and the button handlers;          *)
(*   SpecReader  get_pdf_text read alternately with go_next over one       *)
(*               document whose pages may fail to extract;                 *)
(*   SpecSummary generate_summary_points applied to bounded texts.         *)
(***************************************************************************)
EXTENDS Integers, Sequences, FiniteSets, TLC

\* ---------------------------------------------------------------- bounds
MaxStart == 1
MaxTotal == 1
MaxPage == 10
MaxWins == 1
RdMaxPages == 21
RdMaxBad == 2
RdMaxStart == 1
RdMaxOffset == 30
SmMaxSentences == 52
SmMaxPeriod == 3

\* ------------------------------------------------------ program constants
DEFAULT_PAGES == 10
Paths == {"a.pdf", "b.pdf"}
None == "None"

VARIABLES
    running,       \* the Tk application object exists and its mainloop runs
    state,         \* self.state
    file,          \* the document at STATE_FILE
    cache_exists,  \* os.path.exists(CACHE_FILE)
    dialog,        \* the modal dialog a handler is waiting in, or "none"
    lib_wins,      \* open library windows: how many there are of each set of buttons
    lbl_percent,   \* the integer shown by self.lbl_percent
    last,          \* the last handler that ran ("nothing" if it left the program as it was),
                   \* what it raised, the offset go_next / go_prev found
    rd,            \* SpecReader: document, stored offset, reads made, last result
    sm             \* SpecSummary: input text and returned points

vars == <<running, state, file, cache_exists, dialog, lib_wins, lbl_percent, last, rd, sm>>
appVars == <<running, state, file, cache_exists, dialog, lib_wins, lbl_percent, last>>

\* ------------------------------------------------------------ JSON values
\* A dict is modelled by the set of its keys and the values under them; the
\* library dict is the sequence of its items in insertion order.
StateKeys == {"active_book", "library", "last_run_date"}

DefaultState ==
    [keys |-> StateKeys, active_book |-> None, library |-> <<>>, last_run_date |-> None]

\* the JSON document {} : parseable, but none of the keys of the schema
EmptyObject ==
    [keys |-> {}, active_book |-> None, library |-> <<>>, last_run_date |-> None]

AbsentFile == [exists |-> FALSE, parseable |-> FALSE, value |-> DefaultState]
GarbageFile == [exists |-> TRUE, parseable |-> FALSE, value |-> DefaultState]

\* json.dump(state, f) on a freshly truncated file
json_dump(st) == [exists |-> TRUE, parseable |-> TRUE, value |-> st]

\* json.load(f): the parsed value, or a raise on text that is not JSON
json_load(f) ==
    IF f.parseable THEN [raised |-> FALSE, value |-> f.value]
    ELSE [raised |-> TRUE, value |-> DefaultState]

load_library_state(f) ==
    IF f.exists /\ ~json_load(f).raised THEN json_load(f).value ELSE DefaultState

\* variant: the write is lost and the old document stays
save_library_state_lost(st, f) == f

\* open(STATE_FILE, "w") replaces whatever document f was there
save_library_state(st, f) == json_dump(st)

\* variant: the state document is left in place
remove_state_file_kept(f) == f

\* factory_reset: if os.path.exists(STATE_FILE): os.remove(STATE_FILE)
remove_state_file(f) == IF f.exists THEN AbsentFile ELSE f

\* ------------------------------------------------------------ dict helpers
HasKey(lib, path) == \E i \in 1..Len(lib) : lib[i].path = path

Entry(lib, path) == lib[CHOOSE i \in 1..Len(lib) : lib[i].path = path]

\* library[path] = rec : replaces in place, or appends a new key
SetItem(lib, rec) ==
    IF HasKey(lib, rec.path)
    THEN [i \in 1..Len(lib) |-> IF lib[i].path = rec.path THEN rec ELSE lib[i]]
    ELSE Append(lib, rec)

Max(a, b) == IF a >= b THEN a ELSE b
Min(a, b) == IF a <= b THEN a ELSE b

\* int((page / total) * 100) for total > 0; the float product truncates to
\* this quotient for every total below 5
Percent(e) == (e.page * 100) \div e.total

\* ------------------------------------------------------- state transformers
\* variant: the book becomes active but no record is stored for it
upload_state_no_record(st, path, start, page_count) ==
    [st EXCEPT !.active_book = path]

upload_state(st, path, start, page_count) ==
    [st EXCEPT !.active_book = path,
               !.library = SetItem(st.library,
                              [path |-> path, page |-> start, total |-> page_count])]

resume_state(st, path) == [st EXCEPT !.active_book = path]

SetPage(st, page) ==
    [st EXCEPT !.library =
        SetItem(st.library, [Entry(st.library, st.active_book) EXCEPT !.page = page])]

go_next_page(page) == page + DEFAULT_PAGES

\* variant: the decrement without the clamp
go_prev_page_unclamped(page) == page - DEFAULT_PAGES

go_prev_page(page) == Max(0, page - DEFAULT_PAGES)

go_next_state(st) == SetPage(st, go_next_page(Entry(st.library, st.active_book).page))

go_prev_state(st) == SetPage(st, go_prev_page(Entry(st.library, st.active_book).page))

\* load_daily_content: what it raises and the percentage label it leaves
load_daily_content(st, lbl) ==
    IF "active_book" \notin st.keys THEN [raised |-> "KeyError", lbl |-> lbl]
    ELSE IF st.active_book = None THEN [raised |-> "none", lbl |-> 0]
    ELSE IF "library" \notin st.keys \/ ~HasKey(st.library, st.active_book)
         THEN [raised |-> "KeyError", lbl |-> lbl]
    ELSE IF Entry(st.library, st.active_book).total = 0
         THEN [raised |-> "ZeroDivisionError", lbl |-> lbl]
    ELSE [raised |-> "none", lbl |-> Percent(Entry(st.library, st.active_book))]

\* open_library: the buttons created before the loop ends or raises
RECURSIVE ListedFrom(_, _)
ListedFrom(lib, i) ==
    IF i > Len(lib) \/ lib[i].total = 0 THEN {}
    ELSE {lib[i].path} \cup ListedFrom(lib, i + 1)

open_library_buttons(lib) == ListedFrom(lib, 1)

open_library_raised(lib) ==
    IF \E i \in 1..Len(lib) : lib[i].total = 0 THEN "ZeroDivisionError" ELSE "none"

\* the open Toplevel windows of open_library, counted by the buttons they hold
NoWins == [w \in SUBSET Paths |-> 0]

RECURSIVE SumOver(_, _)
SumOver(wins, S) ==
    IF S = {} THEN 0
    ELSE LET w == CHOOSE x \in S : TRUE
         IN wins[w] + SumOver(wins, S \ {w})

WinCount(wins) == SumOver(wins, SUBSET Paths)

AddWin(wins, w) == [wins EXCEPT ![w] = @ + 1]

\* win.destroy()
DestroyWin(wins, w) == [wins EXCEPT ![w] = @ - 1]

\* the handlers of the main window run when no modal dialog holds the grab
Ready == running /\ dialog = "none"

ActivePage(st) ==
    IF st.active_book # None /\ HasKey(st.library, st.active_book)
    THEN Entry(st.library, st.active_book).page ELSE 0

Last(op, raised, pre) == [op |-> op, raised |-> raised, pre_page |-> pre]

\* ------------------------------------------------------------ get_pdf_text
\* Text is a sequence of character codes.  The text of page i is one code
\* that stands for whatever the page holds.
NL == 10
SP == 32
DOT == 46
PageText(i) == <<1000 + i>>

RECURSIVE PagesText(_, _)
PagesText(i, end_page) ==
    IF i >= end_page THEN <<>>
    ELSE PageText(i) \o <<SP>> \o PagesText(i + 1, end_page)

\* a document on disk: whether fitz.open succeeds, its page_count, and the
\* pages whose load_page / get_text raises
NoDoc == [openable |-> FALSE, page_count |-> 0, bad |-> {}]

ReadResult(text, next_page, at_end, total) ==
    [text |-> text, next_page |-> next_page, at_end |-> at_end, total |-> total]

\* the except branch: return "", start_page, False, 0
ReadFailed(start_page) == ReadResult(<<>>, start_page, FALSE, 0)

get_pdf_text(doc, start_page, num_pages) ==
    IF ~doc.openable THEN ReadFailed(start_page)
    ELSE IF start_page >= doc.page_count
         THEN ReadResult(<<>>, start_page, TRUE, doc.page_count)
    ELSE LET end_page == Min(start_page + num_pages, doc.page_count)
         IN IF \E i \in start_page..(end_page - 1) : i \in doc.bad
            THEN ReadFailed(start_page)
            ELSE ReadResult(PagesText(start_page, end_page), end_page,
                            end_page >= doc.page_count, doc.page_count)

\* ------------------------------------------------- generate_summary_points
MinSentenceLen == 25
MaxPoints == 50

\* text.replace('\n', ' ')
FlattenNewlines(text) == [i \in 1..Len(text) |-> IF text[i] = NL THEN SP ELSE text[i]]

\* positions where the separator '. ' starts (its two characters differ, so
\* no two occurrences overlap)
SepPositions(t) == {i \in 1..(Len(t) - 1) : t[i] = DOT /\ t[i + 1] = SP}

RECURSIVE SortedSeq(_)
SortedSeq(S) ==
    IF S = {} THEN <<>>
    ELSE LET m == CHOOSE x \in S : \A y \in S : x <= y
         IN <<m>> \o SortedSeq(S \ {m})

\* t.split('. ')
SplitSentences(t) ==
    LET seps == SortedSeq(SepPositions(t))
        k == Len(seps)
    IN [j \in 1..(k + 1) |->
           SubSeq(t, IF j = 1 THEN 1 ELSE seps[j - 1] + 2,
                     IF j = k + 1 THEN Len(t) ELSE seps[j] - 1)]

\* the characters str.strip() removes: those for which str.isspace() holds
Whitespace ==
    (9..13) \cup (28..32) \cup {133, 160, 5760} \cup (8192..8202)
    \cup {8232, 8233, 8239, 8287, 12288}

\* line.strip()
Strip(line) ==
    LET idx == {i \in 1..Len(line) : line[i] \notin Whitespace}
    IN IF idx = {} THEN <<>>
       ELSE SubSeq(line, CHOOSE i \in idx : \A j \in idx : i <= j,
                         CHOOSE i \in idx : \A j \in idx : i >= j)

IsValidLine(line) == Len(line) > MinSentenceLen

\* variant: the thinning starts at the second point, points[1::2]
select_points_from_second(points) ==
    IF Len(points) <= MaxPoints THEN SubSeq(points, 1, Min(MaxPoints, Len(points)))
    ELSE [j \in 1..(Len(points) \div 2) |-> points[2 * j]]

\* points[:50] if len(points) <= 50 else points[::2]
select_points(points) ==
    IF Len(points) <= MaxPoints THEN SubSeq(points, 1, Min(MaxPoints, Len(points)))
    ELSE [j \in 1..((Len(points) + 1) \div 2) |-> points[2 * j - 1]]

generate_summary_points(text) ==
    LET lines == SplitSentences(FlattenNewlines(text))
        valid_lines == SelectSeq(lines, IsValidLine)
        points == [j \in 1..Len(valid_lines) |-> Strip(valid_lines[j]) \o <<DOT>>]
    IN select_points(points)

RdIdle ==
    [phase |-> "off", doc |-> NoDoc, start |-> 0, page |-> 0, reads |-> 0,
     first_end |-> 0, first_next |-> 0, res |-> ReadFailed(0), res_start |-> 0]

SmIdle ==
    [phase |-> "off", n |-> 0, period |-> 0, nl |-> FALSE, lead |-> 0,
     trail |-> FALSE, text |-> <<>>, points |-> <<>>]

\* ----------------------------------------------------------------- actions
Init ==
    /\ running = FALSE
    /\ state = DefaultState
    /\ file = AbsentFile
    /\ cache_exists \in BOOLEAN
    /\ dialog = "none"
    /\ lib_wins = NoWins
    /\ lbl_percent = 0
    /\ last = Last("none", "none", 0)
    /\ rd = RdIdle
    /\ sm = SmIdle

\* ChapterMate.__init__ : load the state, build the UI, first refresh
Start ==
    /\ ~running
    /\ LET st == load_library_state(file)
           r == load_daily_content(st, 0)
       IN /\ state' = st
          /\ lbl_percent' = r.lbl
          /\ running' = (r.raised = "none")
          /\ last' = Last("start", r.raised, 0)
    /\ lib_wins' = NoWins
    /\ UNCHANGED <<file, cache_exists, dialog, rd, sm>>

\* the DONE button: self.root.destroy
Done ==
    /\ Ready
    /\ running' = FALSE
    /\ lib_wins' = NoWins
    /\ last' = Last("done", "none", 0)
    /\ UNCHANGED <<state, file, cache_exists, dialog, lbl_percent, rd, sm>>

\* factory_reset up to the "Reset Complete" notice: the files are removed and
\* messagebox.showinfo waits, modal, for the user
factory_reset ==
    /\ Ready
    /\ \E confirm \in BOOLEAN :
         IF confirm
         THEN /\ file' = remove_state_file(file)
              /\ cache_exists' = FALSE
              /\ dialog' = "reset_complete"
              /\ last' = Last("factory_reset", "none", 0)
         ELSE /\ last' = Last("nothing", "none", 0)
              /\ UNCHANGED <<file, cache_exists, dialog>>
    /\ UNCHANGED <<running, state, lib_wins, lbl_percent, rd, sm>>

\* the notice is dismissed: self.root.destroy()
reset_dismissed ==
    /\ running
    /\ dialog = "reset_complete"
    /\ dialog' = "none"
    /\ running' = FALSE
    /\ lib_wins' = NoWins
    /\ last' = Last("reset_dismissed", "none", 0)
    /\ UNCHANGED <<state, file, cache_exists, lbl_percent, rd, sm>>

open_library ==
    /\ Ready
    /\ WinCount(lib_wins) < MaxWins
    /\ lib_wins' = AddWin(lib_wins, open_library_buttons(state.library))
    /\ last' = Last("open_library", open_library_raised(state.library), 0)
    /\ UNCHANGED <<running, state, file, cache_exists, dialog, lbl_percent, rd, sm>>

\* the user closes a library window without choosing a book
close_library ==
    /\ Ready
    /\ \E win \in SUBSET Paths :
         /\ lib_wins[win] > 0
         /\ lib_wins' = DestroyWin(lib_wins, win)
    /\ last' = Last("nothing", "none", 0)
    /\ UNCHANGED <<running, state, file, cache_exists, dialog, lbl_percent, rd, sm>>

resume_book ==
    /\ Ready
    /\ \E win \in {w \in SUBSET Paths : lib_wins[w] > 0} : \E path \in win :
         LET st == resume_state(state, path)
             r == load_daily_content(st, lbl_percent)
         IN /\ state' = st
            /\ file' = save_library_state(st, file)
            /\ lib_wins' = DestroyWin(lib_wins, win)
            /\ lbl_percent' = r.lbl
            /\ last' = Last("resume_book", r.raised, 0)
    /\ UNCHANGED <<running, cache_exists, dialog, rd, sm>>

\* upload_book: the dialog is cancelled, fitz.open raises, or the book is stored
upload_book ==
    /\ Ready
    /\ \/ /\ last' = Last("nothing", "none", 0)
          /\ UNCHANGED <<state, file, lbl_percent>>
       \/ /\ last' = Last("upload_failed", "OpenError", 0)
          /\ UNCHANGED <<state, file, lbl_percent>>
       \/ \E path \in Paths, start \in 0..MaxStart, page_count \in 0..MaxTotal :
            LET st == upload_state(state, path, start, page_count)
                r == load_daily_content(st, lbl_percent)
            IN /\ state' = st
               /\ file' = save_library_state(st, file)
               /\ lbl_percent' = r.lbl
               /\ last' = Last("upload_book", r.raised, 0)
    /\ UNCHANGED <<running, cache_exists, dialog, lib_wins, rd, sm>>

go_next ==
    /\ Ready
    /\ IF state.active_book # None
       THEN /\ go_next_page(ActivePage(state)) <= MaxPage
            /\ LET st == go_next_state(state)
                   r == load_daily_content(st, lbl_percent)
               IN /\ state' = st
                  /\ file' = save_library_state(st, file)
                  /\ lbl_percent' = r.lbl
                  /\ last' = Last("go_next", r.raised, ActivePage(state))
       ELSE /\ last' = Last("nothing", "none", 0)
            /\ UNCHANGED <<state, file, lbl_percent>>
    /\ UNCHANGED <<running, cache_exists, dialog, lib_wins, rd, sm>>

go_prev ==
    /\ Ready
    /\ IF state.active_book # None
       THEN LET st == go_prev_state(state)
                r == load_daily_content(st, lbl_percent)
            IN /\ state' = st
               /\ file' = save_library_state(st, file)
               /\ lbl_percent' = r.lbl
               /\ last' = Last("go_prev", r.raised, ActivePage(state))
       ELSE /\ last' = Last("nothing", "none", 0)
            /\ UNCHANGED <<state, file, lbl_percent>>
    /\ UNCHANGED <<running, cache_exists, dialog, lib_wins, rd, sm>>

\* the environment damages the existing state document while the program is
\* not running: into text that is not JSON, or into the JSON object {}
CorruptFile ==
    /\ ~running
    /\ file.exists
    /\ file' \in {GarbageFile, json_dump(EmptyObject)}
    /\ file' # file
    /\ last' = Last("corrupt", "none", 0)
    /\ UNCHANGED <<running, state, cache_exists, dialog, lib_wins, lbl_percent, rd, sm>>

Next ==
    \/ Start
    \/ Done
    \/ factory_reset
    \/ reset_dismissed
    \/ open_library
    \/ close_library
    \/ resume_book
    \/ upload_book
    \/ go_next
    \/ go_prev
    \/ CorruptFile

Spec == Init /\ [][Next]_vars

\* ------------------------------------------------------------- SpecReader
\* One document; the stored offset starts at a start page; a window read at
\* the stored offset alternates with go_next's advance of the offset.
RECURSIVE SmallSubsets(_, _)
SmallSubsets(S, k) ==
    IF k = 0 THEN {{}}
    ELSE LET prev == SmallSubsets(S, k - 1)
         IN prev \cup {x \cup {e} : x \in prev, e \in S}

Docs ==
    {NoDoc} \cup
    UNION {{[openable |-> TRUE, page_count |-> n, bad |-> b] :
               b \in SmallSubsets(0..(n - 1), RdMaxBad)} : n \in 0..RdMaxPages}

AppIdle ==
    /\ running = FALSE
    /\ state = DefaultState
    /\ file = AbsentFile
    /\ cache_exists = FALSE
    /\ dialog = "none"
    /\ lib_wins = NoWins
    /\ lbl_percent = 0
    /\ last = Last("none", "none", 0)

InitReader ==
    /\ AppIdle
    /\ sm = SmIdle
    /\ \E doc \in Docs, start \in 0..RdMaxStart :
         rd = [RdIdle EXCEPT !.phase = "read", !.doc = doc, !.start = start,
                             !.page = start]

\* text, next, at_end, total = get_pdf_text(path, entry["page"], DEFAULT_PAGES)
RdRead ==
    /\ rd.phase = "read"
    /\ LET r == get_pdf_text(rd.doc, rd.page, DEFAULT_PAGES)
           first == r.at_end /\ rd.first_end = 0
       IN rd' = [rd EXCEPT !.phase = "advance",
                           !.reads = rd.reads + 1,
                           !.res = r,
                           !.res_start = rd.page,
                           !.first_end = IF first THEN rd.reads + 1 ELSE @,
                           !.first_next = IF first THEN r.next_page ELSE @]
    /\ UNCHANGED <<appVars, sm>>

\* go_next: entry["page"] += DEFAULT_PAGES
RdAdvance ==
    /\ rd.phase = "advance"
    /\ go_next_page(rd.page) <= RdMaxOffset
    /\ rd' = [rd EXCEPT !.phase = "read", !.page = go_next_page(rd.page)]
    /\ UNCHANGED <<appVars, sm>>

NextReader == RdRead \/ RdAdvance

SpecReader == InitReader /\ [][NextReader]_vars

\* ------------------------------------------------------------ SpecSummary
\* Texts of n sentences.  Sentence i is MinSentenceLen + 1 characters long,
\* or MinSentenceLen when i is a multiple of period; it may start with a
\* space or a tab; sentences end in ". " or ".\n"; the text ends in ". " or in ".".
SentenceLen(i, period) ==
    IF period > 0 /\ i % period = 0 THEN MinSentenceLen ELSE MinSentenceLen + 1

\* the margin a sentence may start with: none (0), a space or a tab
Leads == {0, SP, 9}

Letters(i, period, lead) ==
    [j \in 1..(SentenceLen(i, period) - (IF lead # 0 THEN 1 ELSE 0)) |-> 200 + i]

Sentence(i, period, lead) ==
    (IF lead # 0 THEN <<lead>> ELSE <<>>) \o Letters(i, period, lead)

RECURSIVE TextFrom(_, _, _, _, _, _)
TextFrom(i, n, period, nl, lead, trail) ==
    IF i > n THEN <<>>
    ELSE Sentence(i, period, lead)
         \o (IF i = n /\ ~trail THEN <<DOT>>
             ELSE <<DOT, IF nl THEN NL ELSE SP>>)
         \o TextFrom(i + 1, n, period, nl, lead, trail)

InitSummary ==
    /\ AppIdle
    /\ rd = RdIdle
    /\ \E n \in 0..SmMaxSentences, period \in 0..SmMaxPeriod,
          nl \in BOOLEAN, lead \in Leads, trail \in BOOLEAN :
         sm = [phase |-> "input", n |-> n, period |-> period, nl |-> nl,
               lead |-> lead, trail |-> trail,
               text |-> TextFrom(1, n, period, nl, lead, trail), points |-> <<>>]

Summarize ==
    /\ sm.phase = "input"
    /\ sm' = [sm EXCEPT !.phase = "done", !.points = generate_summary_points(sm.text)]
    /\ UNCHANGED <<appVars, rd>>

NextSummary == Summarize

SpecSummary == InitSummary /\ [][NextSummary]_vars

\* ================================================================= claims
Mutating == {"upload_book", "resume_book", "go_next", "go_prev"}
Refreshing == Mutating \cup {"start"}

ActiveTotalIsZero ==
    /\ state.active_book # None
    /\ HasKey(state.library, state.active_book)
    /\ Entry(state.library, state.active_book).total = 0

\* C1: every book record of the library has 0 <= page <= total.
C1_PageWithinTotal ==
    \A i \in 1..Len(state.library) :
        0 <= state.library[i].page /\ state.library[i].page <= state.library[i].total

Ceil(p, w) == (p + w - 1) \div w

\* C2: reading an openable document of P pages from offset 0, a read
\* alternating with an advance, the first read that returns at_end is the
\* ceil(P / DEFAULT_PAGES)-th read and it returns next_page = P; once that
\* many reads are made, one of them has returned at_end.
C2_EndAfterCeilReads ==
    (rd.phase # "off" /\ rd.doc.openable /\ rd.start = 0) =>
        /\ rd.first_end # 0 =>
             /\ rd.first_end = Ceil(rd.doc.page_count, DEFAULT_PAGES)
             /\ rd.first_next = rd.doc.page_count
        /\ rd.reads >= Ceil(rd.doc.page_count, DEFAULT_PAGES) /\ rd.reads > 0
             => rd.first_end # 0

RECURSIVE GoodPagesText(_, _, _)
GoodPagesText(i, end_page, bad) ==
    IF i >= end_page THEN <<>>
    ELSE (IF i \in bad THEN <<>> ELSE PageText(i) \o <<SP>>)
         \o GoodPagesText(i + 1, end_page, bad)

\* C3: a read of a non-empty window of an openable document returns the
\* text of exactly the window's pages that did not fail, in page order,
\* next_page = min(start + window, total), and the true total.
C3_FailedPagesSkipped ==
    (rd.phase = "advance" /\ rd.doc.openable /\ rd.res_start < rd.doc.page_count) =>
        LET end_page == Min(rd.res_start + DEFAULT_PAGES, rd.doc.page_count)
        IN /\ rd.res.text = GoodPagesText(rd.res_start, end_page, rd.doc.bad)
           /\ rd.res.next_page = end_page
           /\ rd.res.total = rd.doc.page_count

\* C4: the percentage of a record whose total is 0 is computed without a
\* division by zero and is 0, in the content refresh and in the listing.
C4_ZeroTotalPercentIsZero ==
    /\ last.raised # "ZeroDivisionError"
    /\ (last.op \in Refreshing /\ ActiveTotalIsZero) => lbl_percent = 0

\* C5: go_prev leaves the active offset at max(0, offset - DEFAULT_PAGES),
\* and no stored offset is ever negative.
C5_RetreatClampsAtZero ==
    /\ last.op = "go_prev" =>
         ActivePage(state) =
            (IF last.pre_page >= DEFAULT_PAGES THEN last.pre_page - DEFAULT_PAGES ELSE 0)
    /\ \A i \in 1..Len(state.library) : state.library[i].page >= 0

\* a retreat from an offset smaller than the window has landed on 0
C5_Witness ==
    /\ last.op = "go_prev"
    /\ last.pre_page > 0 /\ last.pre_page < DEFAULT_PAGES
    /\ ActivePage(state) = 0

\* C6: if the active book is set, it is a key of the library mapping.
C6_ActiveBookInLibrary ==
    state.active_book # None => HasKey(state.library, state.active_book)

\* a resume has switched the active book among two stored books
C6_Witness ==
    /\ running
    /\ last.op = "resume_book"
    /\ Len(state.library) = 2
    /\ state.active_book = state.library[1].path

\* C7: after a confirmed factory_reset the state document does not exist
\* and loading it gives the default empty state.
C7_ResetThenLoadIsDefault ==
    last.op \in {"factory_reset", "reset_dismissed"} =>
        /\ ~file.exists
        /\ load_library_state(file) = DefaultState

\* a confirmed reset of a session that had stored books
C7_Witness ==
    /\ last.op = "reset_dismissed"
    /\ ~running
    /\ Len(state.library) = 2
    /\ ActivePage(state) > 0
    /\ ~file.exists

WellFormed(v) == v.keys = StateKeys

\* C8: when the state document is missing, unparseable or malformed,
\* load_library_state returns the default empty state.
C8_BadDocumentLoadsDefault ==
    (~file.exists \/ ~file.parseable \/ ~WellFormed(file.value)) =>
        load_library_state(file) = DefaultState

\* C9: with q the qualifying sentences of the text in order, the summarizer
\* returns all of them (each stripped and ended with a period) when there
\* are fewer than 50, and the 1st, 3rd, 5th, ... when there are more than 50.
Qualifies(i) ==
    SentenceLen(i, sm.period) + (IF i = sm.n /\ ~sm.trail THEN 1 ELSE 0) > 25

QualIds == SelectSeq([i \in 1..sm.n |-> i], Qualifies)

ExpectedPoint(i) ==
    Letters(i, sm.period, sm.lead)
    \o (IF i = sm.n /\ ~sm.trail THEN <<DOT>> ELSE <<>>) \o <<DOT>>

C9_SummaryKeepsAllOrEverySecond ==
    sm.phase = "done" =>
        /\ Len(QualIds) < 50 =>
             sm.points = [j \in 1..Len(QualIds) |-> ExpectedPoint(QualIds[j])]
        /\ Len(QualIds) > 50 =>
             sm.points = [j \in 1..((Len(QualIds) + 1) \div 2) |->
                             ExpectedPoint(QualIds[2 * j - 1])]

\* a text with more than 50 qualifying sentences has been thinned
C9_Witness ==
    /\ sm.phase = "done"
    /\ Len(QualIds) > 50
    /\ Len(sm.points) = (Len(QualIds) + 1) \div 2
    /\ sm.points[2] = ExpectedPoint(QualIds[3])

\* C10: after upload_book, resume_book, go_next or go_prev has changed the
\* state, the persisted document is the in-memory state, and loading it
\* gives that state back.
C10_PersistedEqualsMemory ==
    last.op \in Mutating =>
        /\ file = json_dump(state)
        /\ load_library_state(file) = state

\* an advance has been persisted, also when the refresh after it raised
C10_Witness ==
    /\ last.op = "go_next"
    /\ ActivePage(state) = last.pre_page + DEFAULT_PAGES
    /\ last.raised = "ZeroDivisionError"
    /\ file.exists /\ file.value = state

====
